---- MODULE Spec2Model ----
(***************************************************************************)
(* The API gateway of src/app.py: a Flask application with three handlers  *)
(* (register, login, get_github_stats) over one sqlite users table, bcrypt *)
(* password hashes and flask_jwt_extended access tokens.                   *)
(*                                                                         *)
(* Spec      the gateway serving one request at a time (each handler is    *)
(*           one action), with the clock and the tokens clients hold.      *)
(* SpecConc  the threaded server: register requests of several workers     *)
(*           interleaved statement by statement over the sqlite write lock.*)
(***************************************************************************)
EXTENDS Integers, Sequences, FiniteSets, TLC

(***************************************************************************)
(* Bounds of the model.                                                    *)
(***************************************************************************)
\* The clock runs over 0..MaxTime.
MaxTime == 2
\* Ticks an access token lives (flask_jwt_extended's JWT_ACCESS_TOKEN_EXPIRES
\* default of 15 minutes, scaled to the model's clock).
TokenLifetime == 1

(***************************************************************************)
(* JSON values, tagged with their Python type. Absent marks a key that is  *)
(* not in the object.                                                      *)
(***************************************************************************)
Str(s) == [t |-> "str", v |-> s]
Null == [t |-> "null", v |-> ""]
Num == [t |-> "num", v |-> "123"]
Absent == [t |-> "absent", v |-> ""]
IsStr(x) == x.t = "str"

UsernameStrs == {"alice", ""}
PasswordStrs == {"secret", "hunter2"}
Salts == {"s1", "s2"}

\* The request bodies request.get_json() may return: a falsy value (null, 0,
\* "", [], {}), a JSON array or string holding the words "username" and
\* "password", or an object with or without the two keys.
Bodies ==
    {[kind |-> "falsy", username |-> Absent, password |-> Absent],
     [kind |-> "array", username |-> Absent, password |-> Absent]}
    \cup [kind : {"object"},
          username : {Absent, Null} \cup {Str(s) : s \in UsernameStrs},
          password : {Absent, Num} \cup {Str(s) : s \in PasswordStrs}]
NoBody == [kind |-> "none", username |-> Absent, password |-> Absent]

(***************************************************************************)
(* Configuration and the sqlite files.                                     *)
(***************************************************************************)
\* The file init_db() opens, whatever the configuration says.
InitDbFile == "database.db"
\* Values of the SQLITE_DB_PATH environment variable.
Paths == {"database.db", "users.db"}
\* The process-wide JWT_SECRET_KEY, and a key an attacker signs with.
SecretKey == "JWT_SECRET_KEY"
AttackerKey == "attacker-key"

VARIABLES
    DB_PATH,   \* the configured storage location (module constant of app.py)
    files,     \* sqlite file -> [table : whether users exists, rows : its records]
    now,       \* the clock
    wallet,    \* the access token login handed out that the clients hold
    tried,     \* history: usernames a well-formed register request was made for
    creds,     \* history: <<username, password>> of every successful registration
    last,      \* Spec: the request just served and its response (NoLast
               \* once time has passed or the process was started again)
    thr        \* SpecConc: each worker's position in register() and its locals

vars == <<DB_PATH, files, now, wallet, tried, creds, last, thr>>


(***************************************************************************)
(* HTTP responses. A handler that returns jsonify(...) answers with a JSON *)
(* body; an exception no handler catches leaves the view function and      *)
(* Flask answers with its generic 500 page, which is not JSON.             *)
(***************************************************************************)
Json(status, body) == [status |-> status, ctype |-> "json", body |-> body]
Unhandled(exc) == [status |-> 500, ctype |-> "html", body |-> [exception |-> exc]]
NoResp == [status |-> 0, ctype |-> "none", body |-> [none |-> TRUE]]

MissingFields == Json(400, [error |-> "Missing username or password"])
UserCreated == Json(201, [message |-> "User created successfully"])
UsernameExists == Json(409, [error |-> "Username already exists"])
InvalidCredentials == Json(401, [error |-> "Invalid username or password"])
LoginSuccessful(token) ==
    Json(200, [message |-> "Login successful", access_token |-> token])

(***************************************************************************)
(* bcrypt, for passwords within its 72-byte input. hashpw(password, salt)  *)
(* is a one-way function of the password and the salt, kept here as the    *)
(* pair itself; gensalt() draws the salt; checkpw hashes the candidate     *)
(* with the stored hash's salt and compares.                               *)
(***************************************************************************)
hashpw(password, salt) == [salt |-> salt, digest |-> <<salt, password>>]
NoHash == [salt |-> "", digest |-> <<>>]
\* Mutant: the stored hash is never compared.
checkpw_AnyPassword(password, hashed) == TRUE
checkpw(password, hashed) == hashpw(password, hashed.salt) = hashed

(***************************************************************************)
(* The sqlite store: per file, whether the users table exists and its rows *)
(* in insertion order. id is AUTOINCREMENT: rows are never deleted, so the *)
(* next id is the number of rows plus one.                                 *)
(***************************************************************************)
NoRow == [id |-> 0, username |-> Null, password |-> NoHash]
EmptyFile == [table |-> FALSE, rows |-> <<>>]

RowsOf(store) == {store.rows[i] : i \in 1..Len(store.rows)}
Matching(store, username) == {r \in RowsOf(store) : r.username = username}

\* CREATE TABLE IF NOT EXISTS users (...) in "database.db".
init_db(fs) == [fs EXCEPT ![InitDbFile] = [table |-> TRUE, rows |-> @.rows]]

\* get_db(): the connection is to DB_PATH.
get_db(fs, path) == fs[path]

\* INSERT INTO users (username, password) VALUES (?, ?) and its commit:
\* OperationalError without the table, IntegrityError on NOT NULL or UNIQUE.
InsertUser(store, username, hashed) ==
    IF ~store.table
    THEN [exc |-> "OperationalError", store |-> store]
    ELSE IF username = Null \/ Matching(store, username) # {}
    THEN [exc |-> "IntegrityError", store |-> store]
    ELSE [exc |-> "none",
          store |-> [store EXCEPT !.rows =
              Append(@, [id |-> Len(@) + 1, username |-> username,
                         password |-> hashed])]]

\* SELECT * FROM users WHERE username = ? ... fetchone(): NULL equals nothing.
SelectUser(store, username) ==
    IF ~store.table
    THEN [exc |-> "OperationalError", row |-> NoRow]
    ELSE IF Matching(store, username) = {}
    THEN [exc |-> "none", row |-> NoRow]
    ELSE [exc |-> "none", row |-> CHOOSE r \in Matching(store, username) : TRUE]

(***************************************************************************)
(* The body checks both handlers start with.                               *)
(***************************************************************************)
\* not data or 'username' not in data or 'password' not in data
MissingCheck(data) ==
    \/ data.kind = "falsy"
    \/ data.kind = "object" /\ (data.username = Absent \/ data.password = Absent)

\* data['username'] on a list or a string raises TypeError.
Subscriptable(data) == data.kind = "object"

(***************************************************************************)
(* register(), lines 108-129, on the store of DB_PATH.                     *)
(***************************************************************************)
\* Lines 108-117: the response when the handler ends before the INSERT, or
\* NoResp when it goes on. password.encode raises AttributeError unless the
\* password is a str.
RegisterEarly(data) ==
    IF MissingCheck(data) THEN MissingFields
    ELSE IF ~Subscriptable(data) THEN Unhandled("TypeError")
    ELSE IF ~IsStr(data.password) THEN Unhandled("AttributeError")
    ELSE NoResp

\* Lines 119-129: the response to the INSERT's outcome. Only IntegrityError
\* is caught; the finally clause closes the connection either way.
RegisterAfterInsert(exc) ==
    IF exc = "none" THEN UserCreated
    ELSE IF exc = "IntegrityError" THEN UsernameExists
    ELSE Unhandled(exc)

register(store, data, salt) ==
    IF RegisterEarly(data) # NoResp
    THEN [resp |-> RegisterEarly(data), store |-> store]
    ELSE LET ins == InsertUser(store, data.username,
                               hashpw(data.password.v, salt))
         IN [resp |-> RegisterAfterInsert(ins.exc), store |-> ins.store]

(***************************************************************************)
(* Access tokens: the payload (sub, exp) and its signature, a function of  *)
(* the payload and the signing key.                                        *)
(***************************************************************************)
Sign(sub, exp, key) == [sub |-> sub, exp |-> exp, key |-> key]
Token(sub, exp, key) == [sub |-> sub, exp |-> exp, sig |-> Sign(sub, exp, key)]
NoToken == [sub |-> "", exp |-> 0, sig |-> [none |-> TRUE]]

\* create_access_token(identity=username) at time t.
create_access_token(identity, t) == Token(identity, t + TokenLifetime, SecretKey)

(***************************************************************************)
(* login(), lines 155-175.                                                 *)
(***************************************************************************)
\* The handler: the body checks, the SELECT on the store of DB_PATH, then
\* user and bcrypt.checkpw(...), which hashes only when the user exists.
login(store, data, t) ==
    IF MissingCheck(data) THEN [resp |-> MissingFields, token |-> NoToken]
    ELSE IF ~Subscriptable(data)
    THEN [resp |-> Unhandled("TypeError"), token |-> NoToken]
    ELSE LET sel == SelectUser(store, data.username)
         IN IF sel.exc # "none"
            THEN [resp |-> Unhandled(sel.exc), token |-> NoToken]
            ELSE IF sel.row = NoRow
            THEN [resp |-> InvalidCredentials, token |-> NoToken]
            ELSE IF ~IsStr(data.password)
            THEN [resp |-> Unhandled("AttributeError"), token |-> NoToken]
            ELSE IF checkpw(data.password.v, sel.row.password)
            THEN LET tok == create_access_token(data.username.v, t)
                 IN [resp |-> LoginSuccessful(tok), token |-> tok]
            ELSE [resp |-> InvalidCredentials, token |-> NoToken]

(***************************************************************************)
(* The Authorization header of a request to /api/github/stats.             *)
(***************************************************************************)
NoHeader == [kind |-> "absent", tok |-> NoToken]
\* What a client can put into a token without the secret key: the payload of
\* a token it holds changed under the old signature, or a token signed with
\* a key of its own.
Tampered(held) ==
    {[tok EXCEPT !.sub = "mallory"] : tok \in held}
    \cup {[tok EXCEPT !.exp = @ + TokenLifetime] : tok \in held}
Forged == {Token("alice", MaxTime + TokenLifetime, AttackerKey)}
\* No header; the token without the "Bearer " prefix; "Bearer " and a string
\* that is no JWT; "Bearer " and a token.
Headers(held) ==
    {NoHeader, [kind |-> "garbage", tok |-> NoToken]}
    \cup [kind : {"raw", "bearer"}, tok : held]
    \cup [kind : {"bearer"}, tok : Tampered(held) \cup Forged]

\* jwt.decode: the signature is checked before the claims; a token is
\* expired when exp <= now.
SignatureVerifies(tok) == tok.sig = Sign(tok.sub, tok.exp, SecretKey)
Expired(tok, t) == tok.exp <= t

\* @jwt_required() (line 178) with the JWTManager of line 21 and its default
\* callbacks: a missing header or missing "Bearer" type (NoAuthorizationError)
\* and an expired token answer 401; a token that does not decode or whose
\* signature fails (invalid_token_loader) answers 422. The body is
\* {"msg": ...}. The view function runs only when ok.
jwt_required(header, t) ==
    IF header.kind \in {"absent", "raw"}
    THEN [ok |-> FALSE, identity |-> "",
          resp |-> Json(401, [msg |-> "Missing Authorization Header"])]
    ELSE IF header.kind = "garbage"
    THEN [ok |-> FALSE, identity |-> "",
          resp |-> Json(422, [msg |-> "Not enough segments"])]
    ELSE IF ~SignatureVerifies(header.tok)
    THEN [ok |-> FALSE, identity |-> "",
          resp |-> Json(422, [msg |-> "Signature verification failed"])]
    ELSE IF Expired(header.tok, t)
    THEN [ok |-> FALSE, identity |-> "",
          resp |-> Json(401, [msg |-> "Token has expired"])]
    ELSE [ok |-> TRUE, identity |-> header.tok.sub, resp |-> NoResp]

(***************************************************************************)
(* The downstream service's answer to GET /github/stats.                   *)
(***************************************************************************)
NoData == [stars |-> Absent, requested_by |-> Absent]
NoDown == [kind |-> "none", status |-> 0, data |-> NoData]
\* requests.get raises a RequestException; or the body is a JSON object,
\* with or without a requested_by key of its own; or a JSON array.
DownOutcomes ==
    {[kind |-> "error", status |-> 0, data |-> NoData],
     [kind |-> "array", status |-> 200, data |-> NoData]}
    \cup [kind : {"object"}, status : {200, 404},
          data : [stars : {[t |-> "num", v |-> "10"]},
                  requested_by : {Absent, Str("mallory")}]]

\* What the client may send as requested_by (a query parameter).
Claimed == {Absent, Str("eve")}

\* Mutant: a failed call is tried once more.
get_github_stats_Retry(identity, claimed, down) ==
    IF down.kind = "error"
    THEN [calls |-> 2, resp |-> Json(500, [error |-> "RequestException"])]
    ELSE IF down.kind = "array"
    THEN [calls |-> 1, resp |-> Unhandled("TypeError")]
    ELSE [calls |-> 1,
          resp |-> Json(down.status,
                        [down.data EXCEPT !.requested_by = Str(identity)])]

\* Mutant: data.setdefault('requested_by', ...) keeps the downstream value.
get_github_stats_SetDefault(identity, claimed, down) ==
    IF down.kind = "error"
    THEN [calls |-> 1, resp |-> Json(500, [error |-> "RequestException"])]
    ELSE IF down.kind = "array"
    THEN [calls |-> 1, resp |-> Unhandled("TypeError")]
    ELSE [calls |-> 1,
          resp |-> Json(down.status,
                        [down.data EXCEPT !.requested_by =
                            IF @ = Absent THEN Str(identity) ELSE @])]

\* The view function, lines 193-206, run for the verified identity: one
\* requests.get; its RequestException is caught; data['requested_by'] = ...
\* on a list raises TypeError, which is not.
get_github_stats(identity, claimed, down) ==
    IF down.kind = "error"
    THEN [calls |-> 1, resp |-> Json(500, [error |-> "RequestException"])]
    ELSE IF down.kind = "array"
    THEN [calls |-> 1, resp |-> Unhandled("TypeError")]
    ELSE [calls |-> 1,
          resp |-> Json(down.status,
                        [down.data EXCEPT !.requested_by = Str(identity)])]

\* The whole route: the decorator, then the view function.
stats_route(header, claimed, down, t) ==
    LET auth == jwt_required(header, t)
    IN IF auth.ok
       THEN get_github_stats(auth.identity, claimed, down)
       ELSE [calls |-> 0, resp |-> auth.resp]

(***************************************************************************)
(* The gateway serving one request at a time.                              *)
(***************************************************************************)
Workers == {"w1", "w2"}
Idle == [pc |-> "idle", data |-> NoBody, hashed |-> NoHash, fresh |-> FALSE,
         resp |-> NoResp]

NoLast ==
    [op |-> "none", data |-> NoBody, header |-> NoHeader, claimed |-> Absent,
     down |-> NoDown, calls |-> 0, resp |-> NoResp,
     first |-> FALSE, before |-> NoRow]

\* The row stored for a username, NoRow when there is none.
RowFor(store, username) ==
    IF Matching(store, username) = {} THEN NoRow
    ELSE CHOOSE r \in Matching(store, username) : TRUE

\* A body the spec calls valid: both fields non-empty strings.
ValidBody(data) ==
    /\ data.kind = "object"
    /\ IsStr(data.username) /\ data.username.v # ""
    /\ IsStr(data.password) /\ data.password.v # ""

\* The clients keep the token of the latest successful login. A token's
\* fate depends on nothing but the token and the clock, so every token is
\* presented at every later time all the same.
Keep(held, tok) == {tok}

\* Module import on a fresh deployment: the configuration is read and
\* init_db() runs (line 38).
Init ==
    /\ DB_PATH \in Paths
    /\ files = init_db([f \in Paths |-> EmptyFile])
    /\ now = 0
    /\ wallet = {}
    /\ tried = {}
    /\ creds = {}
    /\ last = NoLast
    /\ thr = [w \in Workers |-> Idle]

\* POST /register
Register(data, salt) ==
    LET r == register(get_db(files, DB_PATH), data, salt)
    IN /\ files' = [files EXCEPT ![DB_PATH] = r.store]
       /\ last' = [NoLast EXCEPT !.op = "register", !.data = data,
                                 !.resp = r.resp,
                                 !.first = (data.username \notin tried),
                                 !.before = RowFor(get_db(files, DB_PATH),
                                                   data.username)]
       /\ tried' = IF ValidBody(data) THEN tried \cup {data.username} ELSE tried
       /\ creds' = IF r.resp.status = 201
                   THEN creds \cup {<<data.username, data.password>>}
                   ELSE creds
       /\ UNCHANGED <<DB_PATH, now, wallet, thr>>

\* POST /login
Login(data) ==
    LET r == login(get_db(files, DB_PATH), data, now)
    IN /\ last' = [NoLast EXCEPT !.op = "login", !.data = data,
                                 !.resp = r.resp]
       /\ wallet' = IF r.token = NoToken THEN wallet ELSE Keep(wallet, r.token)
       /\ UNCHANGED <<DB_PATH, files, now, tried, creds, thr>>

\* GET /api/github/stats. The downstream service answers (down) only when
\* it is called.
Stats(header, claimed, down) ==
    LET r == stats_route(header, claimed, down, now)
    IN /\ (down = NoDown) <=> (r.calls = 0)
       /\ last' = [NoLast EXCEPT !.op = "stats", !.header = header,
                                 !.claimed = claimed,
                                 !.down = down, !.calls = r.calls,
                                 !.resp = r.resp]
       /\ UNCHANGED <<DB_PATH, files, now, wallet, tried, creds, thr>>

\* Time passes.
Tick ==
    /\ now < MaxTime
    /\ now' = now + 1
    /\ last' = NoLast
    /\ UNCHANGED <<DB_PATH, files, wallet, tried, creds, thr>>

\* The process is started again: init_db() runs on the files as they are.
Restart ==
    /\ files' = init_db(files)
    /\ last' = NoLast
    /\ UNCHANGED <<DB_PATH, now, wallet, tried, creds, thr>>

Next ==
    \/ \E data \in Bodies, salt \in Salts : Register(data, salt)
    \/ \E data \in Bodies : Login(data)
    \/ \E header \in Headers(wallet), claimed \in Claimed,
          down \in DownOutcomes \cup {NoDown} :
          Stats(header, claimed, down)
    \/ Tick
    \/ Restart

Spec == Init /\ [][Next]_vars

(***************************************************************************)
(* The threaded server: register() of each worker, statement by statement. *)
(* sqlite serialises writers: the INSERT takes the file's write lock and   *)
(* waits while another connection holds it; commit() or close() gives it   *)
(* up. A worker at "commit" holds the lock.                                *)
(***************************************************************************)
LockFree == \A w \in Workers : thr[w].pc # "commit"

\* Lines 108-117: the body checks and the hash. fresh records whether the
\* username was unregistered when the request came in.
RegisterBegin(w, data, salt) ==
    /\ thr[w].pc = "idle"
    /\ thr' = [thr EXCEPT ![w] =
          IF RegisterEarly(data) # NoResp
          THEN [Idle EXCEPT !.pc = "done", !.data = data,
                            !.resp = RegisterEarly(data)]
          ELSE [Idle EXCEPT !.pc = "insert", !.data = data,
                            !.hashed = hashpw(data.password.v, salt),
                            !.fresh = (Matching(get_db(files, DB_PATH),
                                                data.username) = {})]]
    /\ UNCHANGED <<DB_PATH, files, now, wallet, tried, creds, last>>

\* Lines 120-123: the INSERT. When it raises, the except and finally clauses
\* run and the connection closes.
RegisterExecute(w) ==
    /\ thr[w].pc = "insert"
    /\ LockFree
    /\ LET ins == InsertUser(get_db(files, DB_PATH), thr[w].data.username,
                             thr[w].hashed)
       IN thr' = [thr EXCEPT ![w] =
             IF ins.exc = "none" THEN [@ EXCEPT !.pc = "commit"]
             ELSE [@ EXCEPT !.pc = "done",
                            !.resp = RegisterAfterInsert(ins.exc)]]
    /\ UNCHANGED <<DB_PATH, files, now, wallet, tried, creds, last>>

\* Lines 124-125 and 129: commit, the 201, close.
RegisterCommit(w) ==
    /\ thr[w].pc = "commit"
    /\ LET ins == InsertUser(get_db(files, DB_PATH), thr[w].data.username,
                             thr[w].hashed)
       IN /\ files' = [files EXCEPT ![DB_PATH] = ins.store]
          /\ thr' = [thr EXCEPT ![w] =
                       [@ EXCEPT !.pc = "done",
                                 !.resp = RegisterAfterInsert(ins.exc)]]
    /\ UNCHANGED <<DB_PATH, now, wallet, tried, creds, last>>

\* The response is sent and the worker takes the next request.
Reply(w) ==
    /\ thr[w].pc = "done"
    /\ thr' = [thr EXCEPT ![w] = Idle]
    /\ UNCHANGED <<DB_PATH, files, now, wallet, tried, creds, last>>

NextConc ==
    \/ \E w \in Workers, data \in Bodies, salt \in Salts :
          RegisterBegin(w, data, salt)
    \/ \E w \in Workers : RegisterExecute(w)
    \/ \E w \in Workers : RegisterCommit(w)
    \/ \E w \in Workers : Reply(w)

SpecConc == Init /\ [][NextConc]_vars

(***************************************************************************)
(* Properties.                                                             *)
(***************************************************************************)
Store == get_db(files, DB_PATH)
Registered == {c[1] : c \in creds}
StringFields(data) ==
    data.kind = "object" /\ IsStr(data.username) /\ IsStr(data.password)

\* C1: the first register request for a username with a valid body answers
\* 201; every later one answers 409 and leaves the username's record as it
\* was.
C1_FirstCreatedLaterConflict ==
    (last.op = "register" /\ ValidBody(last.data)) =>
        IF last.first
        THEN last.resp.status = 201
        ELSE /\ last.resp.status = 409
             /\ RowFor(Store, last.data.username) = last.before

\* C1 where the users table exists at the configured location.
C1_WithTable == Store.table => C1_FirstCreatedLaterConflict
C1_WithTableWitness ==
    /\ last.op = "register" /\ ValidBody(last.data) /\ ~last.first
    /\ last.resp.status = 409
    /\ \E c \in creds : c[1] = last.data.username /\ c[2] # last.data.password

\* C2: of two concurrent register requests for the same, not yet registered
\* username exactly one answers 201 and the other 409, and the store holds
\* exactly one record for the username.
C2_ExactlyOneCreated ==
    \A w1, w2 \in Workers :
        (/\ w1 # w2
         /\ thr[w1].pc = "done" /\ thr[w2].pc = "done"
         /\ ValidBody(thr[w1].data) /\ ValidBody(thr[w2].data)
         /\ thr[w1].data.username = thr[w2].data.username
         /\ thr[w1].fresh /\ thr[w2].fresh)
        => /\ {thr[w1].resp.status, thr[w2].resp.status} = {201, 409}
           /\ Cardinality(Matching(Store, thr[w1].data.username)) = 1

\* C2 where the users table exists at the configured location.
C2_WithTable == Store.table => C2_ExactlyOneCreated
C2_WithTableWitness ==
    \E w1, w2 \in Workers :
        /\ w1 # w2
        /\ thr[w1].pc = "done" /\ thr[w2].pc = "done"
        /\ ValidBody(thr[w1].data) /\ ValidBody(thr[w2].data)
        /\ thr[w1].data.username = thr[w2].data.username
        /\ thr[w1].data.password # thr[w2].data.password
        /\ thr[w1].fresh /\ thr[w2].fresh
        /\ thr[w1].resp.status = 201 /\ thr[w2].resp.status = 409
\* Usernames are unique across the records of a store, in every interleaving.
UsernamesUnique ==
    \A f \in Paths : \A i, j \in 1..Len(files[f].rows) :
        files[f].rows[i].username = files[f].rows[j].username => i = j

C3_WrongPasswordWitness ==
    /\ last.op = "login" /\ last.resp.status = 401
    /\ StringFields(last.data)
    /\ last.data.username \in Registered
    /\ wallet # {}

\* C4: on the same store, a login request for a registered username with a
\* wrong password and the same request for a never-registered username are
\* answered alike, with 401 and the same body: the response does not tell
\* whether the username exists.
C4_NoExistenceLeak ==
    (/\ last.op = "login" /\ last.data.kind = "object"
     /\ last.data.password # Absent
     /\ last.data.username \in Registered /\ last.data.username.v # ""
     /\ <<last.data.username, last.data.password>> \notin creds) =>
        /\ last.resp.status = 401
        /\ \A u \in UsernameStrs \cup {"mallory"} :
              Str(u) \notin Registered =>
                  login(Store, [last.data EXCEPT !.username = Str(u)], now).resp
                      = last.resp

\* C4 for passwords that are strings.
C4_StringPasswords == IsStr(last.data.password) => C4_NoExistenceLeak
C4_StringPasswordsWitness ==
    /\ last.op = "login" /\ StringFields(last.data)
    /\ last.data.username \in Registered
    /\ <<last.data.username, last.data.password>> \notin creds
    /\ \E u \in UsernameStrs : Str(u) \notin Registered

\* The token of a request is one login issued and its expiry has not elapsed.
PresentsLiveToken(x) ==
    /\ x.header.kind = "bearer"
    /\ x.header.tok \in wallet
    /\ ~Expired(x.header.tok, now)

\* C5: the handler body runs, and the downstream call is made, exactly when
\* the request presents an unexpired token issued by login; every other
\* request is answered 401 with no outbound call.
C5_OnlyLiveTokensElse401 ==
    last.op = "stats" =>
        /\ (last.calls > 0) <=> PresentsLiveToken(last)
        /\ ~PresentsLiveToken(last) => (last.resp.status = 401 /\ last.calls = 0)

\* C5 without the status code: the call is made exactly for live tokens, and
\* a rejected request is answered 401 or 422.
C5_OnlyLiveTokens ==
    last.op = "stats" =>
        /\ (last.calls > 0) <=> PresentsLiveToken(last)
        /\ ~PresentsLiveToken(last) =>
              (last.resp.status \in {401, 422} /\ last.calls = 0)
C5_ExpiredWitness ==
    /\ last.op = "stats" /\ last.header.kind = "bearer"
    /\ last.header.tok \in wallet /\ Expired(last.header.tok, now)
    /\ last.resp.status = 401

\* C6: an authenticated request makes at most one outbound call; when the
\* call fails the answer is 500 with an error description, no downstream
\* data and no requested_by, after exactly one attempt.
C6_FailureIs500NoRetry ==
    last.op = "stats" =>
        /\ last.calls <= 1
        /\ last.down.kind = "error" =>
              /\ last.calls = 1
              /\ last.resp.status = 500 /\ last.resp.ctype = "json"
              /\ DOMAIN last.resp.body = {"error"}
C6_Witness ==
    /\ last.op = "stats" /\ last.down.kind = "error" /\ last.resp.status = 500

\* C7: when the downstream call returns status s and object b, the answer
\* is status s and b with requested_by set to the verified token's subject,
\* whatever the client sent and whatever b held under that key; the other
\* keys are unchanged.
C7_RequestedByIsSubject ==
    (last.op = "stats" /\ last.down.kind = "object") =>
        /\ last.resp.status = last.down.status /\ last.resp.ctype = "json"
        /\ DOMAIN last.resp.body = DOMAIN last.down.data
        /\ \A k \in DOMAIN last.down.data :
              last.resp.body[k] = IF k = "requested_by"
                                  THEN Str(last.header.tok.sub)
                                  ELSE last.down.data[k]
        /\ SignatureVerifies(last.header.tok)
C7_Witness ==
    /\ last.op = "stats" /\ last.down.kind = "object"
    /\ last.down.status = 404
    /\ last.down.data.requested_by = Str("mallory")
    /\ last.claimed = Str("eve")
    /\ last.resp.body.requested_by = Str("alice")

\* The operation's success response.
Succeeded(x) ==
    \/ x.op = "register" /\ x.resp = UserCreated
    \/ x.op = "login" /\ x.resp.status = 200 /\ x.resp.ctype = "json"
    \/ /\ x.op = "stats" /\ x.down.kind = "object" /\ x.resp.ctype = "json"
       /\ x.resp.status = x.down.status

\* C8: every request ends with the operation's success response or a JSON
\* error body with status 400, 409, 401 or 500, and a request that fails
\* leaves the credential store as it was.
C8_HandledAtBoundary ==
    last.op # "none" =>
        \/ Succeeded(last)
        \/ /\ last.resp.ctype = "json"
           /\ last.resp.status \in {400, 409, 401, 500}
           /\ last.op = "register" =>
                 RowFor(Store, last.data.username) = last.before

\* A failed request leaves the store as it was (the part of C8 that holds).
C8_FailureWritesNothing ==
    (last.op = "register" /\ ~Succeeded(last)) =>
        RowFor(Store, last.data.username) = last.before

\* C9: register writes a record only for a body with both fields non-empty
\* strings; a body missing a field answers 400 and writes nothing; every
\* stored record has a non-empty string username.
C9_OnlyNonEmptyStrings ==
    /\ \A f \in Paths : \A r \in RowsOf(files[f]) :
          IsStr(r.username) /\ r.username.v # ""
    /\ last.op = "register" =>
          /\ RowFor(Store, last.data.username) # last.before
                => ValidBody(last.data)
          /\ MissingCheck(last.data) =>
                (last.resp.status = 400
                 /\ RowFor(Store, last.data.username) = last.before)

\* C9 with the empty string let through: records are written only for
\* string fields, and every stored username is a string.
C9_OnlyStrings ==
    /\ \A f \in Paths : \A r \in RowsOf(files[f]) : IsStr(r.username)
    /\ last.op = "register" =>
          /\ RowFor(Store, last.data.username) # last.before
                => StringFields(last.data)
          /\ MissingCheck(last.data) =>
                (last.resp.status = 400
                 /\ RowFor(Store, last.data.username) = last.before)

\* C10: after startup the users table exists in the store register and
\* login use, at every configured location.
C10_TableAtConfiguredLocation == get_db(files, DB_PATH).table

\* Starting again leaves the records of every file as they were.
C10_RestartKeepsRecords ==
    [][Restart => \A f \in Paths : files'[f].rows = files[f].rows]_vars

====
